---- MODULE Spec2Model ----
(***************************************************************************)
(* Model of gitex's comment delivery: the retry classifier RetryPolicy,    *)
(* the per-platform translators and the SendInlineComments loop of the     *)
(* GitHub and GitLab services, driven through the retrying HTTP transport  *)
(* that NewGitHubService / NewGitLabService configure.                     *)
(*                                                                         *)
(* A Go pointer is modelled as a set with at most one element: {} is nil,  *)
(* {v} points to v.                                                        *)
(***************************************************************************)
EXTENDS Integers, Sequences, FiniteSets, TLC

\* ---------------------------------------------------------------- bounds
MaxComments == 2

\* the longest URL path looked at, in pieces between slashes
MaxPieces == 6

\* the longest URL path handed to the provider detection, in pieces
MaxDetectPieces == 3

\* ------------------------------------------------------ program constants
RetryMax == 3
StatusTooManyRequests == 429
StatusForbidden == 403
StatusNotImplemented == 501

\* ---------------------------------------------------------------- helpers
Nil == {}
Ptr(v) == {v}
Deref(p) == CHOOSE v \in p : TRUE

NoErr == "nil"
ErrConn == "connection error"
ErrCanceled == "context canceled"
ErrDeadline == "context deadline exceeded"

NoHeader == "<absent>"

\* http.Header.Get: the value of the header, "" when it is absent
HeaderGet(h) == IF h = NoHeader THEN "" ELSE h

Response(status, remaining) ==
    [StatusCode |-> status, XRateLimitRemaining |-> remaining]

Decision(retry, err) == [retry |-> retry, err |-> err, panic |-> FALSE]

\* a nil *http.Response is dereferenced: the goroutine panics
NilDereference == [retry |-> FALSE, err |-> NoErr, panic |-> TRUE]

\* ------------------------------------------------------------ RetryPolicy
\* variant: every status from 400 up is retried
ClassifyStatusRetriesClientErrors(r) ==
    IF r.StatusCode >= 400 THEN Decision(TRUE, NoErr)
    ELSE Decision(FALSE, NoErr)

\* variant: 501 is retried like every other 5xx
ClassifyStatusRetries501(r) ==
    IF r.StatusCode = StatusTooManyRequests THEN Decision(TRUE, NoErr)
    ELSE IF r.StatusCode = StatusForbidden
            /\ HeaderGet(r.XRateLimitRemaining) = "0"
         THEN Decision(TRUE, NoErr)
    ELSE IF r.StatusCode >= 500 THEN Decision(TRUE, NoErr)
    ELSE Decision(FALSE, NoErr)

\* the status and header tests RetryPolicy makes on a response
ClassifyStatus(r) ==
    IF r.StatusCode = StatusTooManyRequests THEN Decision(TRUE, NoErr)
    ELSE IF r.StatusCode = StatusForbidden
            /\ HeaderGet(r.XRateLimitRemaining) = "0"
         THEN Decision(TRUE, NoErr)
    ELSE IF r.StatusCode >= 500 /\ r.StatusCode # StatusNotImplemented
         THEN Decision(TRUE, NoErr)
    ELSE IF r.StatusCode >= 400 THEN Decision(FALSE, NoErr)
    ELSE Decision(FALSE, NoErr)

\* variant: the transport error is looked at before the context
RetryPolicyErrBeforeCtx(ctxErr, resp, err) ==
    IF err # NoErr THEN Decision(TRUE, NoErr)
    ELSE IF ctxErr # NoErr THEN Decision(FALSE, ctxErr)
    ELSE IF resp = Nil THEN NilDereference
    ELSE ClassifyStatus(Deref(resp))

\* ctxErr is ctx.Err(), resp a *http.Response, err the transport error
RetryPolicy(ctxErr, resp, err) ==
    IF ctxErr # NoErr THEN Decision(FALSE, ctxErr)
    ELSE IF err # NoErr THEN Decision(TRUE, NoErr)
    ELSE IF resp = Nil THEN NilDereference
    ELSE ClassifyStatus(Deref(resp))

\* ------------------------------------------------- generic comment model
LinePosition(newLine, oldLine) ==
    [LineCode |-> Nil, Type |-> Nil, OldLine |-> oldLine, NewLine |-> newLine]

LineRange(start, end) == [Start |-> start, End |-> end]

Position(commentType, newLine, oldLine, lineRange) ==
    [CommentType |-> commentType,
     BaseSha |-> Ptr("base"), HeadSha |-> Ptr("head"), StartSha |-> Ptr("start"),
     NewPath |-> Ptr("a.go"), OldPath |-> Nil, PositionType |-> Ptr("text"),
     NewLine |-> newLine, OldLine |-> oldLine, LineRange |-> lineRange,
     Width |-> Nil, Height |-> Nil, X |-> Nil, Y |-> Nil]

InlineComment(position) ==
    [Body |-> Ptr("body"), CommitID |-> Ptr("head"), CreatedAt |-> Nil,
     Position |-> position]

\* --------------------------------------------------- GitHub translator
\* variant: the old line is looked at first
LineAndSideOldFirst(newLine, oldLine) ==
    IF oldLine # Nil THEN [Line |-> oldLine, Side |-> Ptr("LEFT")]
    ELSE IF newLine # Nil THEN [Line |-> newLine, Side |-> Ptr("RIGHT")]
    ELSE [Line |-> Nil, Side |-> Nil]

\* the new-before-old choice of (line, side) made for a line reference
LineAndSide(newLine, oldLine) ==
    IF newLine # Nil THEN [Line |-> newLine, Side |-> Ptr("RIGHT")]
    ELSE IF oldLine # Nil THEN [Line |-> oldLine, Side |-> Ptr("LEFT")]
    ELSE [Line |-> Nil, Side |-> Nil]

GitHubConvertApiComment(in) ==
    IF in = Nil \/ Deref(in).Position = Nil THEN Nil
    ELSE LET c == Deref(in)
             pos == Deref(c.Position)
             path == IF pos.NewPath # Nil THEN pos.NewPath
                     ELSE IF pos.OldPath # Nil THEN pos.OldPath ELSE Nil
             multi == /\ pos.CommentType = "MULTI_LINE"
                      /\ pos.LineRange # Nil
                      /\ Deref(pos.LineRange).Start # Nil
                      /\ Deref(pos.LineRange).End # Nil
             end == IF multi
                    THEN LET e == Deref(Deref(pos.LineRange).End)
                         IN LineAndSide(e.NewLine, e.OldLine)
                    ELSE LineAndSide(pos.NewLine, pos.OldLine)
             start == IF multi
                      THEN LET b == Deref(Deref(pos.LineRange).Start)
                           IN LineAndSide(b.NewLine, b.OldLine)
                      ELSE LineAndSide(Nil, Nil)
         IN Ptr([Body |-> c.Body, CommitID |-> c.CommitID, Path |-> path,
                 Line |-> end.Line, Side |-> end.Side,
                 StartLine |-> start.Line, StartSide |-> start.Side])

\* --------------------------------------------------- GitLab translator
\* variant: old and new line change places
ConvertInlineLinePositionSwapsLines(p) ==
    IF p = Nil THEN Nil
    ELSE LET v == Deref(p)
         IN Ptr([LineCode |-> v.LineCode, Type |-> v.Type,
                 OldLine |-> v.NewLine, NewLine |-> v.OldLine])

ConvertInlineLinePosition(p) ==
    IF p = Nil THEN Nil
    ELSE LET v == Deref(p)
         IN Ptr([LineCode |-> v.LineCode, Type |-> v.Type,
                 OldLine |-> v.OldLine, NewLine |-> v.NewLine])

ConvertInlineLineRange(r) ==
    IF r = Nil THEN Nil
    ELSE LET v == Deref(r)
         IN Ptr([Start |-> ConvertInlineLinePosition(v.Start),
                 End |-> ConvertInlineLinePosition(v.End)])

ConvertInlineCommentPosition(p) ==
    IF p = Nil THEN Nil
    ELSE LET v == Deref(p)
         IN Ptr([BaseSHA |-> v.BaseSha, HeadSHA |-> v.HeadSha,
                 StartSHA |-> v.StartSha, NewPath |-> v.NewPath,
                 OldPath |-> v.OldPath, PositionType |-> v.PositionType,
                 NewLine |-> v.NewLine, OldLine |-> v.OldLine,
                 LineRange |-> ConvertInlineLineRange(v.LineRange),
                 Width |-> v.Width, Height |-> v.Height, X |-> v.X, Y |-> v.Y])

\* variant: a comment without a Position is left out, as on GitHub
GitLabConvertApiCommentSkipsNoPosition(comment) ==
    IF comment = Nil \/ Deref(comment).Position = Nil THEN Nil
    ELSE LET c == Deref(comment)
         IN Ptr([Body |-> c.Body, CreatedAt |-> c.CreatedAt,
                 Position |-> ConvertInlineCommentPosition(c.Position)])

GitLabConvertApiComment(comment) ==
    IF comment = Nil THEN Nil
    ELSE LET c == Deref(comment)
         IN Ptr([Body |-> c.Body, CreatedAt |-> c.CreatedAt,
                 Position |-> ConvertInlineCommentPosition(c.Position)])

\* variant: the translator takes the Position out of the comment it read
InputAfterConvertLosesPosition(p, comment) ==
    IF comment = Nil THEN comment
    ELSE Ptr([Deref(comment) EXCEPT !.Position = Nil])

\* The comment the caller holds once the translator has returned.  Neither
\* translator assigns through its argument: every assignment is to a field
\* of the new object (`out.Line = ...`) or part of a struct literal.
InputAfterConvert(p, comment) == comment

TranslateDropsLineless(p, comment) ==
    IF p = "github"
    THEN LET t == GitHubConvertApiComment(comment)
         IN IF t # Nil /\ Deref(t).Line = Nil THEN Nil ELSE t
    ELSE GitLabConvertApiComment(comment)

\* the translator SendInlineComments of the given service calls
Translate(p, comment) ==
    IF p = "github" THEN GitHubConvertApiComment(comment)
    ELSE GitLabConvertApiComment(comment)

\* ------------------------------------------------------------ URL parsers
\* A path is written as the pieces between its slashes, which is what
\* strings.Split(path, "/") returns: "/o/r/pull/7/" is
\* <<"", "o", "r", "pull", "7", "">> and the empty path is <<"">>.  A string
\* joined from pieces is written the same way.

\* strconv.Atoi on the path pieces in use: the value, or Nil for an error
Atoi(piece) ==
    IF piece = "7" THEN Ptr(7)
    ELSE IF piece = "42" THEN Ptr(42)
    ELSE Nil

RECURSIVE DropLeadingEmpty(_)
DropLeadingEmpty(parts) ==
    IF parts # <<>> /\ Head(parts) = "" THEN DropLeadingEmpty(Tail(parts))
    ELSE parts

RECURSIVE DropTrailingEmpty(_)
DropTrailingEmpty(parts) ==
    IF parts # <<>> /\ parts[Len(parts)] = ""
    THEN DropTrailingEmpty(SubSeq(parts, 1, Len(parts) - 1))
    ELSE parts

\* strings.Split(strings.Trim(path, "/"), "/"): every slash at either end
\* goes; what is left of an all-slash path is the empty string
TrimSplit(path) ==
    LET t == DropTrailingEmpty(DropLeadingEmpty(path))
    IN IF t = <<>> THEN <<"">> ELSE t

\* strings.Join(parts, "/"): no parts give the empty string
Join(parts) == IF parts = <<>> THEN <<"">> ELSE parts

ParseFailed == "failed to parse URL"
NotANumber == "invalid syntax"
NoMergeRequest == "invalid Merge Request URL format"
SliceBoundsPanic == "panic: slice bounds out of range"

\* a URL as url.Parse sees it: rejected, or accepted with the Path given
Url(path) == [parseErr |-> FALSE, Path |-> path]
BadUrl == [parseErr |-> TRUE, Path |-> <<"">>]

GitHubResult(owner, repo, num, err) ==
    [owner |-> owner, repo |-> repo, num |-> num, err |-> err]

\* GitHubService.parseWebUrl
GitHubParseWebUrl(u) ==
    IF u.parseErr THEN GitHubResult("", "", 0, ParseFailed)
    ELSE LET parts == TrimSplit(u.Path)
         IN IF Len(parts) < 4 \/ parts[3] # "pull"
            THEN GitHubResult("", "", 0, ParseFailed)
            ELSE IF Atoi(parts[4]) = Nil
            THEN GitHubResult("", "", 0, NotANumber)
            ELSE GitHubResult(parts[1], parts[2], Deref(Atoi(parts[4])), NoErr)

GitLabResult(projectPath, mrId, err) ==
    [projectPath |-> projectPath, mrId |-> mrId, err |-> err]

\* the loop that looks for the marker: the 0-based index of the first piece
\* equal to "merge_requests", -1 when there is none
MrIndex(parts) ==
    LET hits == { i \in 1..Len(parts) : parts[i] = "merge_requests" }
    IN IF hits = {} THEN -1
       ELSE (CHOOSE i \in hits : \A j \in hits : i <= j) - 1

\* the Go slice expression parts[low:high] (0-based, high excluded) of a
\* slice whose capacity is its length; Nil stands for the run-time panic
Slice(parts, low, high) ==
    IF low < 0 \/ high < low \/ high > Len(parts) THEN Nil
    ELSE Ptr(SubSeq(parts, low + 1, high))

\* GitLabService.parseWebUrl
GitLabParseWebUrl(u) ==
    IF u.parseErr THEN GitLabResult(<<"">>, 0, ParseFailed)
    ELSE LET parts == u.Path
             mrIndex == MrIndex(parts)
         IN IF mrIndex = -1 \/ mrIndex + 1 >= Len(parts)
            THEN GitLabResult(<<"">>, 0, NoMergeRequest)
            ELSE LET before == Slice(parts, 1, mrIndex - 1)
                     mrId == Atoi(parts[mrIndex + 2])
                 IN IF before = Nil
                    THEN GitLabResult(<<"">>, 0, SliceBoundsPanic)
                    ELSE IF mrId = Nil
                    THEN GitLabResult(<<"">>, 0, NotANumber)
                    ELSE GitLabResult(Join(Deref(before)), Deref(mrId), NoErr)

\* what the two parsers make of one URL
Parsed(u) ==
    [github |-> GitHubParseWebUrl(u), gitlab |-> GitLabParseWebUrl(u)]

\* --------------------------------------------------------- util.WithRetry
\* items and maxRetries are the arguments; pending, attempt and failed the
\* locals; pos is the place of the inner range loop in pending.  History:
\* calls counts the invocations of fn per item, ok holds the items fn
\* succeeded on, recalled tells whether fn was invoked on an item in ok.
WithRetryIdle ==
    [state |-> "idle", items |-> <<>>, maxRetries |-> 0, pending |-> <<>>,
     attempt |-> 0, pos |-> 1, failed |-> <<>>, calls |-> <<>>, ok |-> {},
     recalled |-> FALSE, ret |-> <<>>]

\* variant: the last attempt is left out
LoopContinuesOneShort(attempt, maxRetries, pending) ==
    attempt < maxRetries /\ Len(pending) > 0

\* `attempt <= maxRetries && len(pending) > 0`
LoopContinues(attempt, maxRetries, pending) ==
    attempt <= maxRetries /\ Len(pending) > 0

\* `if err := fn(item); err != nil { failed = append(failed, item) }`
AfterFn(failed, item, succeeded) ==
    IF succeeded THEN failed ELSE Append(failed, item)

\* -------------------------------------------------- DetectVCSProviderType
\* variant: upper-case letters are left as they are
ToLowerKeepsCase(word) == word

\* strings.ToLower on the host names and path pieces in use
ToLower(word) ==
    IF word \in {"GitHub.com", "GITHUB.COM"} THEN "github.com"
    ELSE IF word \in {"Pull", "PULL"} THEN "pull"
    ELSE IF word \in {"Merge_Requests", "MERGE_REQUESTS"} THEN "merge_requests"
    ELSE word

ToLowerPath(path) == [i \in 1..Len(path) |-> ToLower(path[i])]

\* strings.Contains(path, "/-/merge_requests/"): a piece "-" with a slash in
\* front, directly followed by the piece "merge_requests" and a slash
ContainsMergeRequests(path) ==
    \E i \in 2..Len(path) - 2 :
        path[i] = "-" /\ path[i + 1] = "merge_requests"

\* strings.Contains(path, "/pull/"): a piece "pull" between two slashes
ContainsPull(path) == \E i \in 2..Len(path) - 1 : path[i] = "pull"

\* a URL as url.Parse sees it, with its host
HostUrl(host, path) == [parseErr |-> FALSE, Host |-> host, Path |-> path]
BadHostUrl == [parseErr |-> TRUE, Host |-> "", Path |-> <<"">>]

Detection(type, err) == [type |-> type, err |-> err]

\* ServiceFactory.DetectVCSProviderType
FactoryDetect(u) ==
    IF u.parseErr THEN Detection("", "parse error")
    ELSE LET host == ToLower(u.Host)
             path == ToLowerPath(u.Path)
         IN IF host = "github.com" THEN Detection("github", NoErr)
            ELSE IF ContainsMergeRequests(path) THEN Detection("gitlab", NoErr)
            ELSE IF ContainsPull(path) THEN Detection("github", NoErr)
            ELSE Detection("unknown", NoErr)

\* ----------------------------------------------------- GetPullRequestInfo
\* What the platform answers to the fetch, in one shape for both platforms:
\* ID is the platform-wide id of the pull / merge request; Number is its
\* number within the repository (GitHub `number`, a pointer in the client
\* library) or project (GitLab `iid`); HeadSha and BaseSha are head.sha and
\* base.sha on GitHub (pointers) and diff_refs on GitLab; StartSha is
\* diff_refs.start_sha, which only GitLab has.
PullRequestAnswer(id, number, headSha, baseSha, startSha) ==
    [ID |-> id, Number |-> number, HeadSha |-> headSha, BaseSha |-> baseSha,
     StartSha |-> startSha]

\* the Get... accessors of the GitHub client library: the zero value for nil
GetInt(p) == IF p = Nil THEN 0 ELSE Deref(p)
GetString(p) == IF p = Nil THEN "" ELSE Deref(p)

PullRequestInfo(pullRequestId, headSha, baseSha, startSha) ==
    [PullRequestId |-> pullRequestId, HeadSha |-> headSha,
     BaseSha |-> baseSha, StartSha |-> startSha]

\* variant: the platform-wide id is taken, as an early revision did
GitHubPullRequestIdIsGlobalId(pr) == pr.ID

\* `PullRequestId: int64(pr.GetNumber())`
GitHubPullRequestId(pr) == GetInt(pr.Number)

\* GitHubService.GetPullRequestInfo after a successful PullRequests.Get: the
\* struct literal names no StartSha
GitHubGetPullRequestInfo(pr) ==
    PullRequestInfo(GitHubPullRequestId(pr), GetString(pr.HeadSha),
                    GetString(pr.BaseSha), "")

\* GitLabService.GetPullRequestInfo after a successful GetMergeRequest and
\* GetProject
GitLabGetPullRequestInfo(mr) ==
    PullRequestInfo(GetInt(mr.Number), GetString(mr.HeadSha),
                    GetString(mr.BaseSha), GetString(mr.StartSha))

GetPullRequestInfo(p, answer) ==
    IF p = "github" THEN GitHubGetPullRequestInfo(answer)
    ELSE GitLabGetPullRequestInfo(answer)

\* the pull / merge request id in the create call of SendInlineComments:
\* `int(pullRequestInfo.PullRequestId)` on GitHub, the field as it is on
\* GitLab
CommentAddress(p, info) == info.PullRequestId

\* ---------------------------------------------------------------- App.Run
\* the calls App.Run makes, in the order of its text
Stages ==
    <<"DetectVCSProviderType", "CreateVCSProvider", "GetPullRequestInfo",
      "MkdirTemp", "CreateVersionControlService", "CloneRepoWithContext",
      "CreateAiAgentService", "GeneratePRInlineCommentsWithContext",
      "SendInlineComments">>

VCSProviderTypeUnknown == "unknown"

\* what DetectVCSProviderType can hand back: a type with a nil error, or the
\* empty type with an error
Detections ==
    { [type |-> t, err |-> NoErr] : t \in {"github", "gitlab", VCSProviderTypeUnknown} }
        \cup { [type |-> "", err |-> "parse error"] }

\* variant: an unknown provider type is let through
DetectionFatalOnErrorOnly(d) == d.err # NoErr

\* `if err != nil { return ... }; if vcsProviderType == VCSProviderTypeUnknown
\* { return ... }`
DetectionFatal(d) == d.err # NoErr \/ d.type = VCSProviderTypeUnknown

\* variant: a failed clone does not end the run
StageFatalExceptClone(stage, err) ==
    err # NoErr /\ stage # "CloneRepoWithContext"

\* `if err != nil { return fmt.Errorf(...) }` after each call in front of
\* SendInlineComments
StageFatal(stage, err) == err # NoErr

\* the error Run returns when the given call failed
RunError(stage) == [isErr |-> TRUE, failed |-> stage]

\* a nil error returned by Run
RunOk == [isErr |-> FALSE, failed |-> ""]

\* variant: the error of SendInlineComments is handed on
RunReturnAfterSendPassesError(sendErr) ==
    IF sendErr.isErr THEN Ptr(RunError("SendInlineComments")) ELSE Ptr(RunOk)

\* Run's return value once SendInlineComments has come back: `return nil`
RunReturnAfterSend(sendErr) == Ptr(RunOk)

\* `if err := ...SendInlineComments(...); err != nil { Fprintf(a.stderr,
\* "Warning: %v\n", err) }`
SendWarning(sendErr) == IF sendErr.isErr THEN <<"Warning">> ELSE <<>>

\* variant: the run ends through log.Fatalf, which exits without running
\* the deferred calls
CleanupDirNotDeferred(dir, removed) == dir

\* the deferred os.RemoveAll(tempDir): registered once MkdirTemp succeeded;
\* removed tells whether RemoveAll managed to delete the directory
CleanupDir(dir, removed) ==
    IF dir # "created" THEN dir
    ELSE IF removed THEN "removed" ELSE "left"

CleanupMessage(dir, removed) ==
    IF dir = "created" /\ ~removed THEN <<"Failed to cleanup directory">>
    ELSE <<>>

\* both translations of one comment
Translations(c) ==
    [github |-> Translate("github", c), gitlab |-> Translate("gitlab", c)]

\* ------------------------------------------------------------------ state
VARIABLES
    provider,     \* which service is running: "github" or "gitlab"
    comments,     \* the input list of SendInlineComments
    pc,           \* "idle", "loop", "backoff", "done"
    idx,          \* iteration of the range loop (1-based)
    attempt,      \* the transport's retry counter i of the call in flight
    failedCount,  \* the local failedCount of SendInlineComments
    result,       \* what SendInlineComments returned
    parentCtx,    \* ctx.Err() of the context App.Run cancels on a signal
    asked,        \* history: input positions a create request was sent for
    call,         \* history: the most recent create call (see NoCall)
    callResult,   \* history: per input position, how its create call ended
    polIn,        \* the arguments of the last direct RetryPolicy call
    polOut,       \* what that call returned
    cvIn,         \* the comment last handed to the translators directly
    cvOut,        \* what the GitHub and the GitLab translator made of it
    urlIn,        \* the URL handed to the parsers directly (Nil: none yet)
    urlOut,       \* what the GitHub and the GitLab parser made of it
    runPc,        \* App.Run: index in Stages of the call to make next
    runLog,       \* App.Run: the calls made so far, each with its error
    runRet,       \* App.Run: Nil while running, then the returned error
    vcsProviderType, \* App.Run: the detected type
    tempDir,      \* the sandbox: "none", "created", "removed" or "left"
    stderr,       \* the lines App.Run wrote to a.stderr
    fetchIn,      \* what the platform answered to GetPullRequestInfo (Nil: none)
    fetchOut,     \* what GetPullRequestInfo returned, and the id comments go to
    polFirst,     \* history: the first of a series of classifications
    wr,           \* util.WithRetry: its arguments, locals and history
    detIn,        \* the URL handed to DetectVCSProviderType (Nil: none yet)
    detOut        \* the type and the error it returned

vars == <<provider, comments, pc, idx, attempt, failedCount, result,
          parentCtx, asked, call, callResult, polIn, polOut, cvIn, cvOut,
          urlIn, urlOut, runPc, runLog, runRet, vcsProviderType, tempDir,
          stderr, fetchIn, fetchOut, polFirst, wr, detIn, detOut>>

polVars == <<polIn, polOut>>

cvVars == <<cvIn, cvOut>>

urlVars == <<urlIn, urlOut>>

runVars == <<runPc, runLog, runRet, vcsProviderType, tempDir, stderr>>

fetchVars == <<fetchIn, fetchOut>>

\* the variables of the remaining direct calls
detVars == <<detIn, detOut>>

otherVars == <<fetchVars, polFirst, wr, detVars>>

\* what SendInlineComments and its transport read and write
sendVars == <<provider, comments, pc, idx, attempt, failedCount, result,
              parentCtx, asked, call, callResult>>

\* what the direct calls of the pure functions read and write
pureVars == <<polVars, cvVars, urlVars, runVars, otherVars>>

\* -------------------------------------------------------- input universes
Providers == {"github", "gitlab"}

CommentPool ==
    { Nil,
      Ptr(InlineComment(Nil)),
      Ptr(InlineComment(Ptr(Position("", Ptr(10), Nil, Nil)))),
      Ptr(InlineComment(Ptr(Position("", Nil, Nil, Nil)))) }

CommentLists == UNION { [1..n -> CommentPool] : n \in 0..MaxComments }

SendStatuses == {201, 403, 422, 429, 500, 501}
SendHeaders == {NoHeader, "0", "57"}

\* ctx.Err() values the context of a create call can show: the GitHub call
\* runs under a 30 s timeout, the GitLab call under no deadline at all
CallCtxErrs(p) == IF p = "github" THEN {NoErr, ErrDeadline} ELSE {NoErr}

\* What one round trip of the HTTP client can produce.  processed tells
\* whether the platform carried the create request out.
Outcomes(p) ==
    { [resp |-> Ptr(Response(s, h)), err |-> NoErr, ctxErr |-> c,
       processed |-> (s \in 200..299)]
        : s \in SendStatuses, h \in SendHeaders, c \in CallCtxErrs(p) }
    \cup
    { [resp |-> Nil, err |-> ErrConn, ctxErr |-> NoErr, processed |-> b]
        : b \in BOOLEAN }
    \cup
    { [resp |-> Nil, err |-> c, ctxErr |-> c, processed |-> b]
        : b \in BOOLEAN, c \in CallCtxErrs(p) \ {NoErr} }

NoResult == [returned |-> FALSE, isErr |-> FALSE, count |-> 0]

\* the most recent create call: the input position it is for, the requests
\* sent, the comments the platform made of them, whether an answer was a
\* permanent rejection, whether every answer was transient, whether a
\* request went out after a permanent rejection or after the parent context
\* was cancelled
NoCall ==
    [at |-> 0, sent |-> 0, made |-> 0, permanent |-> FALSE,
     transientOnly |-> TRUE, resent |-> FALSE, afterCancel |-> FALSE]

NotCalled == [state |-> "none", counted |-> 0]

\* ------------------------------------------------------- the send loop
\* variant: the list is walked from its end
CommentIndexReversed(k) == Len(comments) + 1 - k

\* `for _, comment := range comments`: the k-th iteration takes the k-th
\* element of the input list
CommentIndex(k) == k

\* variant: the first failed call ends the loop
AfterCommentAbortOnFailure(k, failed) ==
    IF failed THEN Len(comments) + 1 ELSE k + 1

\* the loop goes on to the next element whether or not the call failed
AfterComment(k, failed) == k + 1

\* `if err != nil { ...; failedCount++ }`
CountFailure(count, failed) == IF failed THEN count + 1 ELSE count

\* variant: a single failure is not reported
AggregateErrorOffByOne(count) ==
    IF count > 1 THEN [returned |-> TRUE, isErr |-> TRUE, count |-> count]
    ELSE [returned |-> TRUE, isErr |-> FALSE, count |-> 0]

\* the value SendInlineComments returns after the loop
AggregateError(count) ==
    IF count > 0 THEN [returned |-> TRUE, isErr |-> TRUE, count |-> count]
    ELSE [returned |-> TRUE, isErr |-> FALSE, count |-> 0]

\* variant: one retry too many
RetryAgainOffByOne(d, i) == d.retry /\ RetryMax - i >= 0

\* the transport retries when CheckRetry said so and retries remain
\* (remain := RetryMax - i; if remain <= 0 { break })
RetryAgain(d, i) == d.retry /\ RetryMax - i > 0

\* the error CreateComment / CreateMergeRequestDiscussion hands back once
\* the transport has stopped: the CheckRetry error or the transport error
\* passed through, otherwise the client library's error for a non-2xx answer
CallError(d, o) ==
    \/ d.err # NoErr
    \/ o.err # NoErr
    \/ o.resp = Nil
    \/ Deref(o.resp).StatusCode \notin 200..299

\* answers that can never succeed on a retry: 4xx other than 429 and other
\* than a 403 that reports an exhausted quota
PermanentAnswer(o) ==
    /\ o.resp # Nil
    /\ LET r == Deref(o.resp)
       IN /\ r.StatusCode \in 400..499
          /\ r.StatusCode # 429
          /\ ~(r.StatusCode = 403 /\ r.XRateLimitRemaining = "0")

\* answers the design calls transient, seen under a live context
TransientAnswer(o) ==
    /\ o.ctxErr = NoErr
    /\ \/ o.resp = Nil
       \/ LET r == Deref(o.resp)
          IN \/ r.StatusCode = 429
             \/ r.StatusCode = 403 /\ r.XRateLimitRemaining = "0"
             \/ r.StatusCode \in 500..599 /\ r.StatusCode # 501

Init ==
    /\ provider \in Providers
    /\ comments = <<>>
    /\ pc = "idle"
    /\ idx = 1
    /\ attempt = 0
    /\ failedCount = 0
    /\ result = NoResult
    /\ parentCtx = NoErr
    /\ asked = {}
    /\ call = NoCall
    /\ callResult = <<>>
    /\ polIn = [ctxErr |-> NoErr, resp |-> Nil, err |-> ErrConn]
    /\ polOut = RetryPolicy(NoErr, Nil, ErrConn)
    /\ cvIn = Nil
    /\ cvOut = Translations(Nil)
    /\ urlIn = Nil
    /\ urlOut = Nil
    /\ runPc = 1
    /\ runLog = <<>>
    /\ runRet = Nil
    /\ vcsProviderType = ""
    /\ tempDir = "none"
    /\ stderr = <<>>
    /\ fetchIn = Nil
    /\ fetchOut = Nil
    /\ polFirst = Nil
    /\ wr = WithRetryIdle
    /\ detIn = Nil
    /\ detOut = Nil

\* App.Run hands the generated list to the provider service
SendInlineComments(cs) ==
    /\ pc = "idle"
    /\ comments' = cs
    /\ pc' = "loop"
    /\ idx' = 1
    /\ failedCount' = 0
    /\ callResult' = [i \in 1..Len(cs) |-> NotCalled]
    /\ UNCHANGED <<provider, attempt, result, parentCtx, asked, call, pureVars>>

InLoop == pc = "loop" /\ idx \in 1..Len(comments)

\* translation gave nil: `continue`
Skip ==
    /\ InLoop
    /\ Translate(provider, comments[CommentIndex(idx)]) = Nil
    /\ idx' = AfterComment(idx, FALSE)
    /\ callResult' = [callResult EXCEPT ![CommentIndex(idx)].state = "skipped"]
    /\ comments' = [comments EXCEPT ![CommentIndex(idx)] =
                                       InputAfterConvert(provider, @)]
    /\ UNCHANGED <<provider, pc, attempt, failedCount, result,
                   parentCtx, asked, call, pureVars>>

\* one round trip of the transport for the comment at hand, its CheckRetry
\* decision, and - when the transport stops - the rest of the loop body;
\* c is the history of the call so far
RoundTrip(i, o, c) ==
    LET at == CommentIndex(idx)
        d == RetryPolicy(o.ctxErr, o.resp, o.err)
        failed == CallError(d, o)
    IN /\ asked' = asked \cup {at}
       /\ call' = [at |-> at,
                   sent |-> c.sent + 1,
                   made |-> IF o.processed THEN c.made + 1 ELSE c.made,
                   permanent |-> c.permanent \/ PermanentAnswer(o),
                   transientOnly |-> c.transientOnly /\ TransientAnswer(o),
                   resent |-> c.resent \/ c.permanent,
                   afterCancel |-> c.afterCancel \/ parentCtx # NoErr]
       /\ IF RetryAgain(d, i)
          THEN /\ pc' = "backoff"
               /\ attempt' = i
               /\ UNCHANGED <<idx, failedCount, callResult>>
          ELSE /\ pc' = "loop"
               /\ attempt' = 0
               /\ idx' = AfterComment(idx, failed)
               /\ failedCount' = CountFailure(failedCount, failed)
               /\ callResult' = [callResult EXCEPT ![at] =
                     [state |-> IF failed THEN "err" ELSE "ok",
                      counted |-> CountFailure(failedCount, failed)
                                    - failedCount]]
       /\ comments' = IF i = 0
                      THEN [comments EXCEPT ![at] =
                                              InputAfterConvert(provider, @)]
                      ELSE comments
       /\ UNCHANGED <<provider, result, parentCtx, pureVars>>

\* translation gave an object: the create call is issued (first attempt)
CreateComment(o) ==
    /\ InLoop
    /\ Translate(provider, comments[CommentIndex(idx)]) # Nil
    /\ RoundTrip(0, o, NoCall)

\* the backoff timer fired: the transport sends the request again
Retry(o) ==
    /\ pc = "backoff"
    /\ RoundTrip(attempt + 1, o, call)

\* the call's context ended during the backoff wait: the transport gives up
\* and returns the context's error
BackoffExpired ==
    /\ pc = "backoff"
    /\ CallCtxErrs(provider) # {NoErr}
    /\ pc' = "loop"
    /\ attempt' = 0
    /\ idx' = AfterComment(idx, TRUE)
    /\ failedCount' = CountFailure(failedCount, TRUE)
    /\ callResult' = [callResult EXCEPT ![CommentIndex(idx)] =
          [state |-> "err",
           counted |-> CountFailure(failedCount, TRUE) - failedCount]]
    /\ call' = [call EXCEPT !.transientOnly = FALSE]
    /\ UNCHANGED <<provider, comments, result, parentCtx, asked, pureVars>>

\* the loop is over: report the tally
Return ==
    /\ pc = "loop"
    /\ idx \notin 1..Len(comments)
    /\ result' = AggregateError(failedCount)
    /\ pc' = "done"
    /\ UNCHANGED <<provider, comments, idx, attempt, failedCount, parentCtx,
                   asked, call, callResult, pureVars>>

\* SIGINT / SIGTERM: the goroutine started by App.Run calls cancelFunc
Interrupt ==
    /\ pc \in {"loop", "backoff"}
    /\ parentCtx = NoErr
    /\ parentCtx' = ErrCanceled
    /\ UNCHANGED <<provider, comments, pc, idx, attempt, failedCount, result,
                   asked, call, callResult, pureVars>>

SendStep ==
    \/ Skip
    \/ \E o \in Outcomes(provider) : CreateComment(o)
    \/ \E o \in Outcomes(provider) : Retry(o)
    \/ BackoffExpired
    \/ Return

Next ==
    \/ \E cs \in CommentLists : SendInlineComments(cs)
    \/ SendStep
    \/ Interrupt

Spec == Init /\ [][Next]_vars

\* every round trip ends and every backoff timer fires
FairSpec == Spec /\ WF_vars(SendStep)

\* ------------------------------------------- RetryPolicy called directly
PolicyStatuses ==
    {200, 201, 204, 301, 304, 400, 401, 403, 404, 422, 429, 499,
     500, 501, 502, 503, 599}
PolicyHeaders == {NoHeader, "", "0", "00", "1", "100"}
PolicyCtxErrs == {NoErr, ErrCanceled, ErrDeadline}
PolicyErrs == {NoErr, ErrConn, ErrDeadline}
PolicyResponses ==
    {Nil} \cup { Ptr(Response(s, h)) : s \in PolicyStatuses, h \in PolicyHeaders }

\* a caller (the transport, or a test) classifies one outcome
Classify(ctxErr, resp, err) ==
    /\ polIn' = [ctxErr |-> ctxErr, resp |-> resp, err |-> err]
    /\ polOut' = RetryPolicy(ctxErr, resp, err)
    /\ UNCHANGED <<sendVars, cvVars, urlVars, runVars, otherVars>>

NextPolicy ==
    \E c \in PolicyCtxErrs, r \in PolicyResponses, e \in PolicyErrs :
        Classify(c, r, e)

SpecPolicy == Init /\ [][NextPolicy]_vars

\* ------------------------------------------ translators called directly
\* line references as they occur at the start and at the end of a range,
\* and at the top level of a Position
StartLines ==
    {Nil} \cup { Ptr(LinePosition(n, o)) : n \in {Nil, Ptr(15)},
                                          o \in {Nil, Ptr(3)} }
EndLines ==
    {Nil} \cup { Ptr([LinePosition(n, o) EXCEPT !.LineCode = Ptr("code"),
                                               !.Type = Ptr("new")])
                    : n \in {Nil, Ptr(20)}, o \in {Nil, Ptr(8)} }
LineRanges ==
    {Nil} \cup { Ptr(LineRange(b, e)) : b \in StartLines, e \in EndLines }
CommentTypes == {"", "SINGLE_LINE", "MULTI_LINE"}

\* the remaining fields of a Position, all set or all nil
FilledPosition(pos) ==
    [pos EXCEPT !.OldPath = Ptr("b.go"), !.Width = Ptr(4), !.Height = Ptr(5),
                !.X = Ptr(6), !.Y = Ptr(9)]
BarePosition(pos) ==
    [pos EXCEPT !.BaseSha = Nil, !.HeadSha = Nil, !.StartSha = Nil,
                !.NewPath = Nil, !.PositionType = Nil]

ConvertPositions ==
    LET base == { Position(t, n, o, r) : t \in CommentTypes,
                                        n \in {Nil, Ptr(10)},
                                        o \in {Nil, Ptr(7)},
                                        r \in LineRanges }
    IN { FilledPosition(pos) : pos \in base }
         \cup { BarePosition(pos) : pos \in base }

ConvertComments ==
    {Nil, Ptr(InlineComment(Nil))}
        \cup { Ptr(InlineComment(Ptr(pos))) : pos \in ConvertPositions }

\* a caller (SendInlineComments, or a test) translates one comment
Convert(c) ==
    /\ cvIn' = c
    /\ cvOut' = Translations(c)
    /\ UNCHANGED <<sendVars, polVars, urlVars, runVars, otherVars>>

NextConvert == \E c \in ConvertComments : Convert(c)

SpecConvert == Init /\ [][NextConvert]_vars

\* ---------------------------------------------- parsers called directly
\* pieces a path is made of: names, the two markers, the GitLab separator
\* and a number
Pieces == {"o", "pull", "merge_requests", "-", "7"}

\* paths of one to MaxPieces pieces, with or without a slash in front and
\* at the end, and the paths "" and "/"
UrlPaths ==
    {<<"">>, <<"", "">>}
        \cup { lead \o body \o trail :
                 lead \in {<<>>, <<"">>},
                 body \in UNION { [1..n -> Pieces] : n \in 1..MaxPieces },
                 trail \in {<<>>, <<"">>} }

Urls == {BadUrl} \cup { Url(path) : path \in UrlPaths }

\* the URL of the command line, as long as none has been parsed
UrlsToParse == IF urlIn = Nil THEN Urls ELSE {}

\* GetPullRequestInfo parses the URL given on the command line, once
ParseWebUrl(u) ==
    /\ urlIn = Nil
    /\ urlIn' = Ptr(u)
    /\ urlOut' = Ptr(Parsed(u))
    /\ UNCHANGED <<sendVars, polVars, cvVars, runVars, otherVars>>

NextUrl == \E u \in UrlsToParse : ParseWebUrl(u)

SpecUrl == Init /\ [][NextUrl]_vars

\* ------------------------------------------------------ App.Run, stepwise
Running == runRet = Nil /\ runPc \in 1..Len(Stages)

\* an entry of runLog
Called(stage, err) == [call |-> stage, err |-> err]

\* Run returns ret; the deferred cleanup runs on the way out
RunReturns(ret, removed) ==
    /\ runRet' = ret
    /\ tempDir' = CleanupDir(tempDir, removed)
    /\ stderr' = stderr \o CleanupMessage(tempDir, removed)

DetectVCSProviderType(d, removed) ==
    /\ Running
    /\ Stages[runPc] = "DetectVCSProviderType"
    /\ runLog' = Append(runLog, Called(Stages[runPc], d.err))
    /\ vcsProviderType' = d.type
    /\ IF DetectionFatal(d)
       THEN /\ RunReturns(Ptr(RunError(Stages[runPc])), removed)
            /\ UNCHANGED runPc
       ELSE /\ runPc' = runPc + 1
            /\ UNCHANGED <<runRet, tempDir, stderr>>
    /\ UNCHANGED <<sendVars, polVars, cvVars, urlVars, otherVars>>

\* one of the calls between detection and sending; err is what it returned
CallStage(err, removed) ==
    /\ Running
    /\ Stages[runPc] \notin {"DetectVCSProviderType", "SendInlineComments"}
    /\ runLog' = Append(runLog, Called(Stages[runPc], err))
    /\ IF StageFatal(Stages[runPc], err)
       THEN /\ RunReturns(Ptr(RunError(Stages[runPc])), removed)
            /\ UNCHANGED runPc
       ELSE /\ runPc' = runPc + 1
            /\ tempDir' = IF Stages[runPc] = "MkdirTemp" /\ err = NoErr
                          THEN "created" ELSE tempDir
            /\ UNCHANGED <<runRet, stderr>>
    /\ UNCHANGED <<vcsProviderType, sendVars, polVars, cvVars, urlVars, otherVars>>

\* the last call; sendErr is what SendInlineComments returned
RunSendInlineComments(sendErr, removed) ==
    /\ Running
    /\ Stages[runPc] = "SendInlineComments"
    /\ runLog' = Append(runLog, Called(Stages[runPc],
                                       IF sendErr.isErr THEN "error" ELSE NoErr))
    /\ result' = sendErr
    /\ runRet' = RunReturnAfterSend(sendErr)
    /\ tempDir' = CleanupDir(tempDir, removed)
    /\ stderr' = stderr \o SendWarning(sendErr) \o CleanupMessage(tempDir, removed)
    /\ UNCHANGED <<runPc, vcsProviderType, provider, comments, pc, idx, attempt,
                   failedCount, parentCtx, asked, call, callResult, polVars,
                   cvVars, urlVars, otherVars>>

\* SIGINT / SIGTERM while the goroutine started in front of the generation
\* waits on sigChan: it calls cancelFunc
RunInterrupt ==
    /\ Running
    /\ Stages[runPc] \in {"GeneratePRInlineCommentsWithContext",
                          "SendInlineComments"}
    /\ parentCtx = NoErr
    /\ parentCtx' = ErrCanceled
    /\ UNCHANGED <<provider, comments, pc, idx, attempt, failedCount, result,
                   asked, call, callResult, pureVars>>

StageErrs == {NoErr, "error"}
\* what SendInlineComments can return
SendErrs == { AggregateError(n) : n \in 0..MaxComments }

NextRun ==
    \/ \E d \in Detections, removed \in BOOLEAN :
           DetectVCSProviderType(d, removed)
    \/ \E err \in StageErrs, removed \in BOOLEAN : CallStage(err, removed)
    \/ \E sendErr \in SendErrs, removed \in BOOLEAN :
           RunSendInlineComments(sendErr, removed)
    \/ RunInterrupt

SpecRun == Init /\ [][NextRun]_vars

\* ------------------------------------------ GetPullRequestInfo, directly

\* on GitLab the number and the diff refs are plain values, always present
\* in the decoded answer (possibly empty strings, which Nil stands for)
PullRequestAnswers ==
    { PullRequestAnswer(id, n, h, b, st) :
        id \in {9001, 9002}, n \in {Nil, Ptr(7), Ptr(42)},
        h \in {Nil, Ptr("abc")}, b \in {Nil, Ptr("abc"), Ptr("def")},
        st \in {Nil, Ptr("abc"), Ptr("123")} }

\* the service of the running provider fetches the pull request once
FetchPullRequestInfo(answer, err) ==
    /\ fetchIn = Nil
    /\ fetchIn' = Ptr([answer |-> answer, err |-> err])
    /\ fetchOut' =
         IF err # NoErr
         THEN Ptr([info |-> Nil, err |-> err, address |-> Nil])
         ELSE LET info == GetPullRequestInfo(provider, answer)
              IN Ptr([info |-> Ptr(info), err |-> NoErr,
                      address |-> Ptr(CommentAddress(provider, info))])
    /\ UNCHANGED <<sendVars, polVars, cvVars, urlVars, runVars, polFirst, wr,
                   detVars>>

NextFetch ==
    \E answer \in PullRequestAnswers, err \in {NoErr, "failed to get merge request"} :
        FetchPullRequestInfo(answer, err)

SpecFetch == Init /\ [][NextFetch]_vars

\* ----------------------------------------- RetryPolicy called repeatedly
SeriesResponses ==
    {Nil} \cup { Ptr(Response(s, h)) : s \in {201, 403, 422, 429, 500, 501},
                                       h \in {NoHeader, "0"} }

\* variant: a decision that depends on what was classified before - after
\* the first call nothing is retried any more
PolicyCallGivesUpAfterFirst(ctxErr, resp, err) ==
    IF polFirst = Nil THEN RetryPolicy(ctxErr, resp, err)
    ELSE Decision(FALSE, RetryPolicy(ctxErr, resp, err).err)

\* what a call of RetryPolicy returns in the state the program is in
PolicyCall(ctxErr, resp, err) == RetryPolicy(ctxErr, resp, err)

\* one classification of a series; the first one is remembered, with
\* whether another input came after it and whether it then came again
ClassifyInSeries(ctxErr, resp, err) ==
    LET in == [ctxErr |-> ctxErr, resp |-> resp, err |-> err]
        out == PolicyCall(ctxErr, resp, err)
    IN /\ polIn' = in
       /\ polOut' = out
       /\ polFirst' =
            IF polFirst = Nil
            THEN Ptr([in |-> in, out |-> out, others |-> FALSE,
                      again |-> FALSE])
            ELSE LET f == Deref(polFirst)
                 IN Ptr([f EXCEPT !.others = f.others \/ in # f.in,
                                  !.again = f.again \/ (f.others /\ in = f.in)])
       /\ UNCHANGED <<sendVars, cvVars, urlVars, runVars, fetchVars, wr,
                      detVars>>

NextSeries ==
    \E c \in PolicyCtxErrs, r \in SeriesResponses, e \in {NoErr, ErrConn} :
        ClassifyInSeries(c, r, e)

SpecSeries == Init /\ [][NextSeries]_vars

\* ------------------------------------------------- util.WithRetry, run
\* items are told apart by their value: the lists 1..n
ItemLists == { [i \in 1..n |-> i] : n \in 0..MaxComments }

WithRetry(items, maxRetries) ==
    /\ wr.state = "idle"
    /\ wr' = [WithRetryIdle EXCEPT !.state = "running", !.items = items,
                                   !.maxRetries = maxRetries,
                                   !.pending = items,
                                   !.calls = [i \in 1..Len(items) |-> 0]]
    /\ UNCHANGED <<sendVars, polVars, cvVars, urlVars, runVars, fetchVars,
                   polFirst, detVars>>

\* one pass of the inner loop body: fn is invoked on the item at hand and
\* succeeds or fails; after the last item of pending the attempt ends
\* (`pending = failed`, `attempt++`)
Fn(succeeded) ==
    /\ wr.state = "running"
    /\ LoopContinues(wr.attempt, wr.maxRetries, wr.pending)
    /\ LET item == wr.pending[wr.pos]
           failed == AfterFn(wr.failed, item, succeeded)
           last == wr.pos = Len(wr.pending)
       IN wr' = [wr EXCEPT
                   !.calls[item] = @ + 1,
                   !.ok = IF succeeded THEN @ \cup {item} ELSE @,
                   !.recalled = @ \/ item \in wr.ok,
                   !.failed = IF last THEN <<>> ELSE failed,
                   !.pending = IF last THEN failed ELSE @,
                   !.attempt = IF last THEN @ + 1 ELSE @,
                   !.pos = IF last THEN 1 ELSE @ + 1]
    /\ UNCHANGED <<sendVars, polVars, cvVars, urlVars, runVars, fetchVars,
                   polFirst, detVars>>

\* `return pending`
WithRetryReturn ==
    /\ wr.state = "running"
    /\ ~LoopContinues(wr.attempt, wr.maxRetries, wr.pending)
    /\ wr' = [wr EXCEPT !.state = "returned", !.ret = wr.pending]
    /\ UNCHANGED <<sendVars, polVars, cvVars, urlVars, runVars, fetchVars,
                   polFirst, detVars>>

NextWithRetry ==
    \/ \E items \in ItemLists, maxRetries \in -1..RetryMax :
           WithRetry(items, maxRetries)
    \/ \E succeeded \in BOOLEAN : Fn(succeeded)
    \/ WithRetryReturn

SpecWithRetry == Init /\ [][NextWithRetry]_vars

\* -------------------------------------- DetectVCSProviderType, directly
DetectPaths ==
    LET pieces == {"o", "7", "-", "pull", "PULL", "merge_requests",
                   "Merge_Requests"}
    IN {<<"">>, <<"", "">>}
         \cup { lead \o body \o trail :
                  lead \in {<<>>, <<"">>},
                  body \in UNION { [1..n -> pieces] : n \in 1..MaxDetectPieces },
                  trail \in {<<>>, <<"">>} }

DetectUrls ==
    {BadHostUrl}
        \cup { HostUrl(h, path) :
                 h \in {"github.com", "GitHub.com", "gitlab.com", "git.corp"},
                 path \in DetectPaths }

\* the URL of the command line, as long as none has been looked at
UrlsToDetect == IF detIn = Nil THEN DetectUrls ELSE {}

\* App.Run asks the factory for the provider type of its URL, once
Detect(u) ==
    /\ detIn = Nil
    /\ detIn' = Ptr(u)
    /\ detOut' = Ptr(FactoryDetect(u))
    /\ UNCHANGED <<sendVars, polVars, cvVars, urlVars, runVars, fetchVars,
                   polFirst, wr>>

NextDetect == \E u \in UrlsToDetect : Detect(u)

SpecDetect == Init /\ [][NextDetect]_vars

\* ================================================================ claims

\* C1: once a create call has been answered with a 4xx that is neither 429
\* nor a quota-exhausted 403, the transport stops - no further request is
\* sent for that comment - and the loop counts the comment as one failure.
PermanentRejectionSentOnce ==
    call.permanent =>
        /\ ~call.resent
        /\ pc # "backoff"
        /\ callResult[call.at] = [state |-> "err", counted |-> 1]

PermanentRejectionSeen ==
    /\ pc = "done"
    /\ call.permanent
    /\ call.sent = 1
    /\ result.isErr

HasPosition(c) == c # Nil /\ Deref(c).Position # Nil

\* C2: when SendInlineComments has returned, every comment with a Position
\* that follows a failed comment has had at least one create request sent.
FailureDoesNotStopLaterComments ==
    pc = "done" =>
        \A i \in 1..Len(comments), j \in 1..Len(comments) :
            (i < j /\ callResult[i].state = "err" /\ HasPosition(comments[j]))
                => j \in asked

LaterCommentSentAfterFailure ==
    /\ pc = "done"
    /\ Len(comments) = 2
    /\ callResult[1].state = "err"
    /\ HasPosition(comments[2])
    /\ callResult[2].state = "ok"

NotCreated ==
    { i \in 1..Len(comments) :
        /\ Translate(provider, comments[i]) # Nil
        /\ callResult[i].state # "ok" }

NoDuplicateCreate == call.made <= 1

\* C5: requests go out in input order and are never interleaved: the most
\* recent request is never for a position before one already requested.
RequestsInInputOrder ==
    call.sent > 0 => \A p \in asked : p <= call.at

RetriedSecondAfterFirst ==
    /\ call.at = 2
    /\ call.sent >= 2
    /\ 1 \in asked
    /\ callResult[1].state = "err"

\* C6: once the parent context is cancelled, no create request is sent.
CancelStopsSending == ~call.afterCancel

\* C7: with a cancelled or expired context RetryPolicy returns retry=false
\* and the context's error, whatever the response and transport error are.
CancelledContextWins ==
    polIn.ctxErr # NoErr =>
        /\ ~polOut.panic
        /\ ~polOut.retry
        /\ polOut.err = polIn.ctxErr
        /\ polOut.err # NoErr

CancelledWithRetryableInputs ==
    /\ polIn.ctxErr = ErrCanceled
    /\ polIn.err = ErrConn
    /\ polIn.resp = Ptr(Response(429, "0"))
    /\ ~polOut.retry

\* C8: live context, no transport error, a response present: retry is true
\* exactly for 429, for 403 with X-RateLimit-Remaining "0", and for 5xx
\* other than 501; the returned error is nil.
StatusDecisionTable ==
    (polIn.ctxErr = NoErr /\ polIn.err = NoErr /\ polIn.resp # Nil) =>
        LET r == Deref(polIn.resp)
        IN /\ ~polOut.panic
           /\ polOut.err = NoErr
           /\ polOut.retry <=>
                \/ r.StatusCode = 429
                \/ r.StatusCode = 403 /\ r.XRateLimitRemaining = "0"
                \/ r.StatusCode >= 500 /\ r.StatusCode # 501

QuotaExhaustedRetried ==
    /\ polIn = [ctxErr |-> NoErr, resp |-> Ptr(Response(403, "0")),
                err |-> NoErr]
    /\ polOut.retry

\* C9: live context and no response: retry=true with a nil error, also
\* when no transport error accompanies the absent response.
AbsentResponseRetried ==
    (polIn.ctxErr = NoErr /\ polIn.resp = Nil) =>
        polOut = Decision(TRUE, NoErr)

\* C10: a create call sends at most RetryMax+1 requests; a call whose every
\* answer was transient ends after exactly that many, is counted as one
\* failure, and the loop moves to the next comment; SendInlineComments
\* always returns.
BoundedRetriesThenFailure ==
    /\ [](/\ call.sent <= RetryMax + 1
          /\ (call.sent > 0 /\ call.transientOnly /\ pc # "backoff") =>
                /\ call.sent = RetryMax + 1
                /\ callResult[call.at] = [state |-> "err", counted |-> 1]
                /\ idx > call.at)
    /\ (pc = "loop") ~> (pc = "done")

CeilingExhaustedThenNext ==
    /\ pc = "loop"
    /\ Len(comments) = 2
    /\ idx = 2
    /\ call.at = 1
    /\ call.transientOnly
    /\ call.sent = RetryMax + 1
    /\ failedCount = 1

\* a comment (not nil) whose Position is nil
NoPosition(c) == c # Nil /\ Deref(c).Position = Nil

\* position i of the input has not led to a request nor to a counted failure
Untouched(i) ==
    /\ i \notin asked
    /\ callResult[i].state \in {"none", "skipped"}
    /\ callResult[i].counted = 0

NoUsableLine(c) ==
    /\ c # Nil
    /\ Deref(c).Position # Nil
    /\ LET pos == Deref(Deref(c).Position)
       IN /\ pos.NewLine = Nil
          /\ pos.OldLine = Nil
          /\ pos.LineRange = Nil

\* C14: on GitHub a comment whose Position names no line is translated to
\* an object without line fields, is never skipped, has its create request
\* sent, and a rejection by the platform counts as one failure that the
\* returned error reports.
LinelessCommentSentAndCounted ==
    \A i \in 1..Len(comments) :
        (provider = "github" /\ NoUsableLine(comments[i])) =>
            LET t == Translate(provider, comments[i])
            IN /\ t # Nil
               /\ Deref(t).Line = Nil
               /\ Deref(t).Side = Nil
               /\ Deref(t).StartLine = Nil
               /\ Deref(t).StartSide = Nil
               /\ callResult[i].state # "skipped"
               /\ (idx > i \/ pc = "done") => i \in asked
               /\ (call.at = i /\ call.permanent) =>
                     /\ callResult[i] = [state |-> "err", counted |-> 1]
                     /\ failedCount >= 1
                     /\ pc = "done" => (result.isErr /\ result.count >= 1)

LinelessCommentRejected ==
    /\ pc = "done"
    /\ provider = "github"
    /\ Len(comments) = 1
    /\ NoUsableLine(comments[1])
    /\ call.at = 1
    /\ call.permanent
    /\ call.sent = 1
    /\ result.isErr
    /\ result.count = 1

\* the Position of the comment last translated directly
CvPos == Deref(Deref(cvIn).Position)

\* a Position that is marked single-line or carries no range
SingleLinePosition(pos) ==
    pos.LineRange = Nil \/ pos.CommentType = "SINGLE_LINE"

\* a Position with a range whose start and end are both present and with
\* no line of its own
CompleteRangeOnly(pos) ==
    /\ pos.NewLine = Nil
    /\ pos.OldLine = Nil
    /\ pos.LineRange # Nil
    /\ Deref(pos.LineRange).Start # Nil
    /\ Deref(pos.LineRange).End # Nil

\* C12: the GitHub translation of a single-line position has line =
\* new_line and side = RIGHT when new_line is set (old_line set or not),
\* and line = old_line and side = LEFT when only old_line is set.
SingleLineNewBeforeOld ==
    (HasPosition(cvIn) /\ SingleLinePosition(CvPos)) =>
        LET out == Deref(cvOut.github)
        IN /\ CvPos.NewLine # Nil =>
                (out.Line = CvPos.NewLine /\ out.Side = Ptr("RIGHT"))
           /\ (CvPos.NewLine = Nil /\ CvPos.OldLine # Nil) =>
                (out.Line = CvPos.OldLine /\ out.Side = Ptr("LEFT"))

BothLinesSetTranslated ==
    /\ HasPosition(cvIn)
    /\ SingleLinePosition(CvPos)
    /\ CvPos.NewLine = Ptr(10)
    /\ CvPos.OldLine = Ptr(7)
    /\ Deref(cvOut.github).Line = Ptr(10)
    /\ Deref(cvOut.github).Side = Ptr("RIGHT")

\* C13 as stated: the GitHub translation of every position that carries a
\* range with start and end and no line of its own takes line and side from
\* the end of the range and start_line and start_side from its start, the
\* new line before the old one.
RangeEndsTranslated ==
    (HasPosition(cvIn) /\ CompleteRangeOnly(CvPos)) =>
        LET out == Deref(cvOut.github)
            b == Deref(Deref(CvPos.LineRange).Start)
            e == Deref(Deref(CvPos.LineRange).End)
        IN /\ e.NewLine # Nil =>
                (out.Line = e.NewLine /\ out.Side = Ptr("RIGHT"))
           /\ (e.NewLine = Nil /\ e.OldLine # Nil) =>
                (out.Line = e.OldLine /\ out.Side = Ptr("LEFT"))
           /\ b.NewLine # Nil =>
                (out.StartLine = b.NewLine /\ out.StartSide = Ptr("RIGHT"))
           /\ (b.NewLine = Nil /\ b.OldLine # Nil) =>
                (out.StartLine = b.OldLine /\ out.StartSide = Ptr("LEFT"))

\* the GitLab line reference out carries what the generic one in carries
SameLinePosition(in, out) ==
    IF in = Nil THEN out = Nil
    ELSE /\ out # Nil
         /\ Deref(out).LineCode = Deref(in).LineCode
         /\ Deref(out).Type = Deref(in).Type
         /\ Deref(out).OldLine = Deref(in).OldLine
         /\ Deref(out).NewLine = Deref(in).NewLine

\* C15: the GitLab translation of a Position carries every field of the
\* input with the same value - SHAs, paths, position type, new and old line,
\* and the start and end of the range with their line code, type, old and
\* new line - and a field that is nil in the input is nil in the output.
GitLabPositionLossless ==
    HasPosition(cvIn) =>
        /\ cvOut.gitlab # Nil
        /\ Deref(cvOut.gitlab).Position # Nil
        /\ LET out == Deref(Deref(cvOut.gitlab).Position)
           IN /\ out.BaseSHA = CvPos.BaseSha
              /\ out.HeadSHA = CvPos.HeadSha
              /\ out.StartSHA = CvPos.StartSha
              /\ out.NewPath = CvPos.NewPath
              /\ out.OldPath = CvPos.OldPath
              /\ out.PositionType = CvPos.PositionType
              /\ out.NewLine = CvPos.NewLine
              /\ out.OldLine = CvPos.OldLine
              /\ IF CvPos.LineRange = Nil THEN out.LineRange = Nil
                 ELSE /\ out.LineRange # Nil
                      /\ SameLinePosition(Deref(CvPos.LineRange).Start,
                                          Deref(out.LineRange).Start)
                      /\ SameLinePosition(Deref(CvPos.LineRange).End,
                                          Deref(out.LineRange).End)

FullRangeTranslatedForGitLab ==
    /\ HasPosition(cvIn)
    /\ CvPos.OldPath = Ptr("b.go")
    /\ CvPos.NewLine = Nil
    /\ CvPos.LineRange # Nil
    /\ Deref(CvPos.LineRange).Start = Ptr(LinePosition(Ptr(15), Ptr(3)))
    /\ Deref(CvPos.LineRange).End # Nil
    /\ Deref(Deref(CvPos.LineRange).End).OldLine = Ptr(8)
    /\ Deref(Deref(CvPos.LineRange).End).NewLine = Nil
    /\ LET out == Deref(Deref(cvOut.gitlab).Position)
       IN /\ out.OldPath = Ptr("b.go")
          /\ Deref(Deref(out.LineRange).Start).NewLine = Ptr(15)
          /\ Deref(Deref(out.LineRange).Start).OldLine = Ptr(3)
          /\ Deref(Deref(out.LineRange).End).OldLine = Ptr(8)
          /\ Deref(Deref(out.LineRange).End).LineCode = Ptr("code")

\* the path of the URL last parsed, without the slashes at its ends
UrlPieces == TrimSplit(Deref(urlIn).Path)

\* owner/repo/pull/<number> with at most one more piece after the number
PullRequestPath(parts) ==
    /\ Len(parts) \in {4, 5}
    /\ parts[3] = "pull"
    /\ Atoi(parts[4]) # Nil

\* C19 as stated: the GitHub parser succeeds exactly for paths of the form
\* owner/repo/pull/<number> with at most one tab piece after the number and
\* an optional slash at the end, and then returns owner, repo and number;
\* every other path gives an error.
GitHubAcceptsExactlyPullRequestPaths ==
    urlIn # Nil =>
        LET u == Deref(urlIn)
            out == Deref(urlOut).github
        IN IF ~u.parseErr /\ PullRequestPath(UrlPieces)
           THEN /\ out.err = NoErr
                /\ out.owner = UrlPieces[1]
                /\ out.repo = UrlPieces[2]
                /\ Ptr(out.num) = Atoi(UrlPieces[4])
           ELSE out.err # NoErr

\* the pieces in front of the first marker that name the project: the
\* slashes in front and the "-" that directly precedes the marker left out
ProjectPieces(parts) ==
    LET before == DropLeadingEmpty(SubSeq(parts, 1, MrIndex(parts)))
    IN IF before # <<>> /\ before[Len(before)] = "-"
       THEN SubSeq(before, 1, Len(before) - 1)
       ELSE before

\* C20 as stated: for a path with the piece merge_requests followed by a
\* number the GitLab parser returns that number and, as project path, all
\* the pieces in front of the marker except the "-" separator; without the
\* marker, with nothing after it, or with no number after it, the parser
\* returns an error.
GitLabProjectIsAllBeforeMarker ==
    (urlIn # Nil /\ ~Deref(urlIn).parseErr) =>
        LET parts == Deref(urlIn).Path
            m == MrIndex(parts)
            out == Deref(urlOut).gitlab
        IN IF m # -1 /\ m + 2 <= Len(parts) /\ Atoi(parts[m + 2]) # Nil
           THEN /\ out.err = NoErr
                /\ Ptr(out.mrId) = Atoi(parts[m + 2])
                /\ out.projectPath = Join(ProjectPieces(parts))
           ELSE out.err # NoErr

RunReturned == runRet # Nil

\* C16: when SendInlineComments has returned an error, App.Run returns nil
\* and has written a line with "Warning" to stderr.
SendErrorIsOnlyAWarning ==
    (RunReturned /\ result.returned /\ result.isErr) =>
        /\ runRet = Ptr(RunOk)
        /\ \E i \in 1..Len(stderr) : stderr[i] = "Warning"

RunSucceededWithWarning ==
    /\ RunReturned
    /\ result.isErr
    /\ result.count = 2
    /\ runRet = Ptr(RunOk)
    /\ stderr = <<"Warning">>
    /\ tempDir = "removed"

\* C17: the calls of App.Run are made in the order of Stages (detect, create
\* provider, fetch PR info, ..., clone, create agent, generate, send), and
\* when a call in front of SendInlineComments fails it is the last call made
\* and Run has returned an error.
StagesInOrderAndFailureEndsRun ==
    /\ Len(runLog) <= Len(Stages)
    /\ \A i \in 1..Len(runLog) : runLog[i].call = Stages[i]
    /\ \A i \in 1..Len(runLog) :
          (runLog[i].err # NoErr /\ runLog[i].call # "SendInlineComments") =>
              /\ i = Len(runLog)
              /\ RunReturned
              /\ Deref(runRet).isErr
    /\ (RunReturned /\ ~Deref(runRet).isErr) => Len(runLog) = Len(Stages)

CloneFailedRunEnded ==
    /\ RunReturned
    /\ runRet = Ptr(RunError("CloneRepoWithContext"))
    /\ Len(runLog) = 6
    /\ runLog[6] = Called("CloneRepoWithContext", "error")
    /\ tempDir = "removed"

\* C18: when detection yields the unknown type, App.Run has returned an
\* error and has made no other call: no provider service, no sandbox
\* directory, nothing fetched, cloned, generated or sent.
UnknownProviderIsFatal ==
    vcsProviderType = VCSProviderTypeUnknown =>
        /\ RunReturned
        /\ Deref(runRet).isErr
        /\ runLog = <<Called("DetectVCSProviderType", NoErr)>>
        /\ tempDir = "none"
        /\ ~result.returned

UnknownProviderRejected ==
    /\ vcsProviderType = VCSProviderTypeUnknown
    /\ runRet = Ptr(RunError("DetectVCSProviderType"))
    /\ Len(runLog) = 1

FetchSucceeded == fetchOut # Nil /\ Deref(fetchOut).err = NoErr

\* the platform's answer of the fetch, and the info made of it
FetchAnswer == Deref(fetchIn).answer
FetchInfo == Deref(Deref(fetchOut).info)

\* C21: after a successful fetch PullRequestId is the number of the pull /
\* merge request within its repository or project (GitHub number, GitLab
\* IID), not the platform-wide id, and the create calls of
\* SendInlineComments are addressed with that value.
PullRequestIdIsScopedNumber ==
    (FetchSucceeded /\ FetchAnswer.Number # Nil) =>
        /\ FetchInfo.PullRequestId = Deref(FetchAnswer.Number)
        /\ FetchInfo.PullRequestId # FetchAnswer.ID
        /\ Deref(fetchOut).address = FetchAnswer.Number

GitHubNumberFetched ==
    /\ FetchSucceeded
    /\ provider = "github"
    /\ FetchAnswer.Number = Ptr(42)
    /\ FetchAnswer.ID = 9001
    /\ FetchInfo.PullRequestId = 42
    /\ Deref(fetchOut).address = Ptr(42)

\* the answer carries the SHAs the platform has: head and base, and on
\* GitLab the start SHA
HasDiffRefs(p, answer) ==
    /\ answer.HeadSha # Nil
    /\ answer.BaseSha # Nil
    /\ p = "gitlab" => answer.StartSha # Nil

\* C27 as stated: after a successful fetch, on both platforms, BaseSha,
\* HeadSha and StartSha of the info are populated from the diff references
\* of the answer and none of the three is empty.
AllThreeShasPopulated ==
    (FetchSucceeded /\ HasDiffRefs(provider, FetchAnswer)) =>
        /\ FetchInfo.HeadSha = Deref(FetchAnswer.HeadSha)
        /\ FetchInfo.BaseSha = Deref(FetchAnswer.BaseSha)
        /\ FetchInfo.StartSha # ""
        /\ provider = "gitlab" =>
              FetchInfo.StartSha = Deref(FetchAnswer.StartSha)

AtMostThreeRequests == call.sent <= RetryMax

\* C23 amended: the ceiling is 3 retries - a comment's create request is
\* sent at most 4 times in total, once and then up to RetryMax times again.
AtMostThreeRetries == call.sent <= RetryMax + 1

FourthRequestSent ==
    /\ pc = "done"
    /\ Len(comments) = 1
    /\ call.at = 1
    /\ call.sent = RetryMax + 1
    /\ call.made = 1
    /\ ~result.isErr

\* the items fn never succeeded on although it was invoked on them
\* maxRetries + 1 times
Exhausted(i) == i \notin wr.ok /\ wr.calls[i] = wr.maxRetries + 1

\* C24: WithRetry invokes fn on each item at most maxRetries + 1 times and
\* never again on an item fn succeeded on; it returns, in input order,
\* exactly the items whose maxRetries + 1 invocations all failed; with
\* maxRetries = 0 every item is invoked exactly once; with an empty list fn
\* is never invoked.
WithRetryContract ==
    /\ \A i \in 1..Len(wr.items) : wr.calls[i] <= wr.maxRetries + 1
    /\ ~wr.recalled
    /\ wr.state = "returned" =>
          /\ wr.ret = SelectSeq(wr.items, Exhausted)
          /\ wr.maxRetries = 0 => \A i \in 1..Len(wr.items) : wr.calls[i] = 1
    /\ wr.items = <<>> => (wr.calls = <<>> /\ wr.ok = {})

SecondItemExhausted ==
    /\ wr.state = "returned"
    /\ wr.items = <<1, 2>>
    /\ wr.maxRetries = 2
    /\ wr.calls = <<2, 3>>
    /\ wr.ok = {1}
    /\ wr.ret = <<2>>

Spellings(word) ==
    IF word = "github.com" THEN {"github.com", "GitHub.com", "GITHUB.COM"}
    ELSE IF word = "pull" THEN {"pull", "Pull", "PULL"}
    ELSE IF word = "merge_requests"
    THEN {"merge_requests", "Merge_Requests", "MERGE_REQUESTS"}
    ELSE {word}

\* the path has "/-/merge_requests/" in it, in any case
HasMergeRequestsMarker(path) ==
    \E i \in 2..Len(path) - 2 :
        path[i] = "-" /\ path[i + 1] \in Spellings("merge_requests")

\* the path has "/pull/" in it, in any case
HasPullMarker(path) ==
    \E i \in 2..Len(path) - 1 : path[i] \in Spellings("pull")

\* C26: the detection answers github for the host github.com in any case;
\* else gitlab for a path with /-/merge_requests/ in any case; else github
\* for a path with /pull/ in any case; else unknown - each with a nil error;
\* an error with the empty type comes for an unparsable URL and only then.
DetectionPrecedence ==
    detIn # Nil =>
        LET u == Deref(detIn)
            out == Deref(detOut)
        IN IF u.parseErr THEN out.type = "" /\ out.err # NoErr
           ELSE /\ out.err = NoErr
                /\ out.type =
                     IF u.Host \in Spellings("github.com") THEN "github"
                     ELSE IF HasMergeRequestsMarker(u.Path) THEN "gitlab"
                     ELSE IF HasPullMarker(u.Path) THEN "github"
                     ELSE "unknown"

MergeRequestsBeforePull ==
    /\ detIn # Nil
    /\ Deref(detIn).Host = "git.corp"
    /\ Deref(detIn).Path = <<"", "-", "Merge_Requests", "PULL", "">>
    /\ Deref(detOut) = Detection("gitlab", NoErr)

\* C28: GitLab parseWebUrl ends with a result or an error value for every
\* URL: it never ends in the run-time panic of a slice expression whose
\* bounds are out of range.
GitLabParseNeverPanics ==
    urlIn # Nil => Deref(urlOut).gitlab.err # SliceBoundsPanic

\* C29: every object produced by GitHub convertApiComment is well-formed:
\* Side is set exactly when Line is set, StartSide exactly when StartLine is
\* set, and StartLine is set only when Line is set as well.
GitHubCommentWellFormed ==
    cvOut.github # Nil =>
        LET out == Deref(cvOut.github)
        IN /\ (out.Side # Nil) <=> (out.Line # Nil)
           /\ (out.StartSide # Nil) <=> (out.StartLine # Nil)
           /\ (out.StartLine # Nil) => (out.Line # Nil)

\* MkdirTemp has returned a directory
SandboxCreated ==
    \E i \in 1..Len(runLog) : runLog[i] = Called("MkdirTemp", NoErr)

\* C30 as stated: once App.Run has created the sandbox directory, the
\* directory is gone when Run has returned, whichever call ended the run.
SandboxAlwaysRemoved ==
    (RunReturned /\ SandboxCreated) => tempDir = "removed"

\* C30: once App.Run has created the sandbox directory, its removal has been
\* attempted when Run has returned, whichever call ended the run: the
\* directory is gone, or os.RemoveAll failed, the directory is still there
\* and "Failed to cleanup directory" is on stderr.
SandboxRemovedOrFailureReported ==
    (RunReturned /\ SandboxCreated) =>
        \/ tempDir = "removed"
        \/ /\ tempDir = "left"
           /\ \E i \in 1..Len(stderr) : stderr[i] = "Failed to cleanup directory"

AgentCreationFailedSandboxLeft ==
    /\ RunReturned
    /\ SandboxCreated
    /\ runRet = Ptr(RunError("CreateAiAgentService"))
    /\ tempDir = "left"
    /\ stderr = <<"Failed to cleanup directory">>

====
